---- MODULE Spec2Model ----
(***************************************************************************)
(* Model of app.py: the load of data.csv (load_enterprise_data), the       *)
(* cascading headquarters -> branch -> manager filter, the option toggles, *)
(* the Volume / Revenue analysis mode and the KPI and group-by tables of   *)
(* one script run.  Every user interaction reruns the whole script.        *)
(*                                                                         *)
(* Column names and cell values of the source are Korean strings; the      *)
(* module writes them in ASCII:                                            *)
(*   "HQ" = '본부'            "Branch" = '지사'                            *)
(*   "Manager" = '구역담당영업사원'   "EventStart" = '이벤트시작일'        *)
(*   "MonthlyFee" = '월정료(VAT미포함)'   "ContractNo" = '계약번호'        *)
(*   "SuspDays" = '당월말_정지일수'   "SuspChgType" = '정지,설변구분'      *)
(*   "QueryType" = '조회구분'   "KPIDeduct" = a column named '...KPI차감...'*)
(*   "Arrears" = '체납'   "Channel" = '실적채널'   "LiType" = 'L형/i형'    *)
(*   "DispatchVideo" = '출동/영상'   "ServiceSub" = '서비스(소)'           *)
(*   "BadType" = '부실구분'   "SuspDaysBand" = '당월말_정지일수_구간'      *)
(*   "FeeBand" = '월정료 구간'                                             *)
(*   values: "Susp" = '정지', "Chg" = '설변', "Unassigned" = '미지정',     *)
(*   "TARGET" = '대상' (a KPI status is a sequence of such tokens, so that *)
(*   '비대상' = <<"NON", "TARGET">> contains the marker as str.contains    *)
(*   finds it).                                                            *)
(*   A text shown on a KPI card is the number it prints, as                *)
(*   [neg, digits, decimals] (digits is the number without its decimal     *)
(*   point: '1,234.5' has digits 12345 and decimals 1; the thousands       *)
(*   separators are not kept), and the suffix after it:                    *)
(*   "million" = '백만', "thousand" = '천', "count" = '건', "%" = '%',     *)
(*   "" = no suffix.                                                       *)
(*                                                                         *)
(* A raw csv cell is <<>> (empty, read as NaN) or <<v>>.  A date is the    *)
(* integer yyyymmdd, so that integer order is chronological order.         *)
(***************************************************************************)
EXTENDS Integers, Sequences, FiniteSets, TLC

VARIABLES df, session, view

vars == <<df, session, view>>

(***************************************************************************)
(* Generic helpers                                                         *)
(***************************************************************************)
Range(s) == {s[i] : i \in DOMAIN s}

RECURSIVE SumSeq(_)
SumSeq(s) == IF s = <<>> THEN 0 ELSE Head(s) + SumSeq(Tail(s))

\* The subsequence of the indices of s (ascending) that satisfy the mask.
RECURSIVE IndicesFrom(_, _, _)
IndicesFrom(i, n, keep) ==
    IF i > n THEN <<>>
    ELSE (IF i \in keep THEN <<i>> ELSE <<>>) \o IndicesFrom(i + 1, n, keep)

(***************************************************************************)
(* 2. Helper functions: format_korean_currency                             *)
(***************************************************************************)
Million == 1000000
Thousand == 1000

Abs(x) == IF x < 0 THEN -x ELSE x

\* n / d (n >= 0, d > 0) rounded to the nearest integer, a tie to the even one:
\* what the format specs ".0f" and ".1f" do with a value that is exact.
RoundHalfEven(n, d) ==
    LET q == n \div d
        r == n % d
    IN  IF 2 * r < d THEN q
        ELSE IF 2 * r > d THEN q + 1
        ELSE IF q % 2 = 0 THEN q ELSE q + 1

RECURSIVE Log2Floor(_)
Log2Floor(n) == IF n < 2 THEN 0 ELSE 1 + Log2Floor(n \div 2)

\* 2^s mod 20, for s >= 2
Pow2Mod20(s) ==
    CASE s % 4 = 0 -> 16
      [] s % 4 = 1 -> 12
      [] s % 4 = 2 -> 4
      [] s % 4 = 3 -> 8

\* f"{a/1_000_000:,.1f}" for an integer a >= 1_000_000: the tenths of a
\* million printed.  The quotient is a double; the format rounds the double's
\* exact value.  Off a tie (a is no odd multiple of 50_000) the double rounds as
\* the quotient does.  On a tie the quotient is N/20 with N odd: it is a double
\* when 5 divides N (x.25, x.75) and the tie goes to the even tenth; otherwise
\* the double lies just above or just below the quotient, by the remainder of
\* N * 2^s by 20, where s = 52 - floor(log2(quotient)) is the scale of the
\* double's 53-bit mantissa.
million_tenths(a) ==
    LET N == a \div 50000
    IN  IF a % 100000 # 50000 \/ N % 5 = 0 THEN RoundHalfEven(a, 100000)
        ELSE LET s == 52 - Log2Floor(a \div Million)
                 r == ((N % 20) * Pow2Mod20(s)) % 20
             IN  (a \div 100000) + (IF r > 10 THEN 1 ELSE 0)

\* format_korean_currency (lines 125-136) on an integer amount: "0",
\* f"{value/1_000_000:,.1f}백만" or f"{value/1_000:,.0f}천".
format_korean_currency(value) ==
    IF value = 0
        THEN [neg |-> FALSE, digits |-> 0, decimals |-> 0, unit |-> ""]
    ELSE IF Abs(value) >= Million
        THEN [neg |-> value < 0, digits |-> million_tenths(Abs(value)),
              decimals |-> 1, unit |-> "million"]
    ELSE [neg |-> value < 0, digits |-> RoundHalfEven(Abs(value), Thousand),
          decimals |-> 0, unit |-> "thousand"]

(***************************************************************************)
(* 2. load_enterprise_data                                                 *)
(***************************************************************************)
TimestampMin == 16770921
CutoffYear == 2025
PreCutoffKey == 20241231

NaT == <<>>

YearOf(d) == d \div 10000
MonthOf(d) == (d \div 100) % 100

DaysInMonth(y, m) ==
    IF m \in {4, 6, 9, 11} THEN 30
    ELSE IF m = 2
         THEN (IF y % 4 = 0 /\ (y % 100 # 0 \/ y % 400 = 0) THEN 29 ELSE 28)
         ELSE 31

\* pd.to_datetime(..., errors='coerce') on one cell: a cell that is empty or
\* is no calendar date becomes NaT, a date becomes <<yyyymmdd>>.
to_datetime(cell) ==
    IF cell = <<>> THEN NaT
    ELSE LET s == cell[1]
         IN  IF /\ s.m \in 1..12
                /\ s.d \in 1..DaysInMonth(s.y, s.m)
             THEN <<s.y * 10000 + s.m * 100 + s.d>>
             ELSE NaT

PeriodUnknown == [kind |-> "unknown", yy |-> 0, m |-> 0]
PeriodPre == [kind |-> "pre", yy |-> 0, m |-> 0]

\* categorize_period: "기간 미상", "2024년 이전" or f"'{str(dt.year)[-2:]}.{dt.month}"
categorize_period(dt) ==
    IF dt = NaT THEN PeriodUnknown
    ELSE IF YearOf(dt[1]) < CutoffYear THEN PeriodPre
    ELSE [kind |-> "month", yy |-> YearOf(dt[1]) % 100, m |-> MonthOf(dt[1])]

\* A sort key that leaves the dates before the cutoff year as they are.
get_sort_key_no_collapse(dt) == IF dt = NaT THEN TimestampMin ELSE dt[1]

\* get_sort_key: Timestamp.min, Timestamp("2024-12-31") or the date itself
get_sort_key(dt) ==
    IF dt = NaT THEN TimestampMin
    ELSE IF YearOf(dt[1]) < CutoffYear THEN PreCutoffKey
    ELSE dt[1]

\* pd.to_numeric(errors='coerce').fillna(0) on one cell
to_numeric_fillna0(cell) == IF cell = <<>> THEN 0 ELSE cell[1]

\* fillna("미지정") on one cell of a text column
fillna_unassigned(cell) == IF cell = <<>> THEN "Unassigned" ELSE cell[1]

target_cols ==
    {"HQ", "Branch", "DispatchVideo", "LiType", "SuspChgType", "ServiceSub",
     "BadType", "Arrears", "Channel", "Manager"}

numeric_cols == {"ContractNo", "SuspDays"}

\* The columns of the loaded frame for a csv with columns `cols`.
LoadedCols(cols) ==
    cols \cup target_cols \cup {"KPI_Status"}
         \cup (IF "EventStart" \in cols THEN {"Period", "SortKey"} ELSE {})

\* One row of the loaded frame.
LoadRow(cols, raw) ==
    [c \in LoadedCols(cols) |->
        IF c = "KPI_Status"
            THEN (IF "KPIDeduct" \in cols THEN raw["KPIDeduct"] ELSE << <<"-">> >>)
        ELSE IF c = "EventStart" THEN to_datetime(raw[c])
        ELSE IF c = "Period" THEN categorize_period(to_datetime(raw["EventStart"]))
        ELSE IF c = "SortKey" THEN get_sort_key(to_datetime(raw["EventStart"]))
        ELSE IF c = "MonthlyFee" THEN to_numeric_fillna0(raw[c])
        ELSE IF c \in numeric_cols THEN to_numeric_fillna0(raw[c])
        ELSE IF c \in target_cols
            THEN (IF c = "SuspChgType" /\ "QueryType" \in cols
                      THEN fillna_unassigned(raw["QueryType"])
                  ELSE IF c \notin cols THEN "Unclassified"
                  ELSE fillna_unassigned(raw[c]))
        ELSE raw[c]]

load_enterprise_data(csv) ==
    [cols |-> LoadedCols(csv.cols),
     rows |-> [i \in DOMAIN csv.rows |-> LoadRow(csv.cols, csv.rows[i])]]

(***************************************************************************)
(* 3. Control center: the three selection widgets and the two toggles      *)
(***************************************************************************)
\* A multi-select widget's session entry: the options it was last drawn with and
\* the value it holds (fresh: not drawn yet).
FreshWidget == [fresh |-> TRUE, opts |-> {}, val |-> {}]

\* A widget that returns what it holds whatever its options are.
pills_multi_stale(options, w) == IF w.fresh THEN {options} ELSE {w.val}

\* st.pills / st.multiselect (selection_mode="multi", default=options): the
\* values the call can return.  A widget drawn with the options it already had
\* returns the value it holds.  Drawn with other options it is, depending on the
\* streamlit release, a new widget (returns its default, every option) or the
\* same widget keeping what it can (the held values that are still options);
\* a widget never returns a value that is not one of its options.  (Above 15
\* branches or 20 managers the script draws the same widget inside an expander
\* under another key; the files explored stay below both.)
pills_multi(options, w) ==
    IF w.fresh THEN {options}
    ELSE IF w.opts = options THEN {w.val}
    ELSE {options, w.val \cap options}

\* The selection used as returned, an empty one included.
fallback_never(selected, all) == selected

\* "if not selected_x: selected_x = <all>" (lines 212, 230, 260)
fallback_all(selected, all) == IF selected = {} THEN all ELSE selected

RowIdx(d) == DOMAIN d.rows

all_hqs(d) == {d.rows[i]["HQ"] : i \in RowIdx(d)}

valid_branches(d, selected_hq) ==
    {d.rows[i]["Branch"] : i \in {j \in RowIdx(d) : d.rows[j]["HQ"] \in selected_hq}}

valid_managers(d, selected_hq, selected_branch) ==
    {d.rows[i]["Manager"] :
        i \in {j \in RowIdx(d) : /\ d.rows[j]["HQ"] \in selected_hq
                                 /\ d.rows[j]["Branch"] \in selected_branch}}

\* Series.str.contains('대상', na=False) on one KPI_Status cell
str_contains(cell, marker) ==
    /\ cell # <<>>
    /\ \E k \in DOMAIN cell[1] : cell[1][k] = marker

kpi_mask(row) == str_contains(row["KPI_Status"], "TARGET")

\* Whether KPI_Status holds no string: read_csv gives a column whose cells are
\* all empty the dtype float64 and the load copies it as it is (line 152; the
\* column is not one of target_cols, so nothing fills it).  On such a column
\* the .str accessor of line 275 raises AttributeError.
kpi_status_not_str(d) == \A i \in RowIdx(d) : d.rows[i]["KPI_Status"] = <<>>

arrears_mask(row) ==
    /\ row["Arrears"] # "-"
    /\ row["Arrears"] # "Unclassified"
    /\ row["Arrears"] # "Unassigned"

\* mask (lines 271-276): the indices of the rows kept.
mask(d, selected_hq, selected_branch, selected_managers, kpi_target, arrears_only) ==
    {i \in RowIdx(d) :
        /\ d.rows[i]["HQ"] \in selected_hq
        /\ d.rows[i]["Branch"] \in selected_branch
        /\ d.rows[i]["Manager"] \in selected_managers
        /\ (kpi_target => kpi_mask(d.rows[i]))
        /\ (arrears_only => arrears_mask(d.rows[i]))}

\* df[mask]: the kept rows, in the frame's order.
frame_rows(d, m) ==
    LET ix == IndicesFrom(1, Len(d.rows), m)
    IN  [k \in DOMAIN ix |-> d.rows[ix[k]]]

(***************************************************************************)
(* 4. Analysis mode                                                        *)
(***************************************************************************)
VAL_COL(metric_mode) == IF metric_mode = "Volume" THEN "ContractNo" ELSE "MonthlyFee"

AGG_FUNC(metric_mode) == IF metric_mode = "Volume" THEN "count" ELSE "sum"

\* FMT_FUNC (line 295): f"{x:,.0f}건" on a count, format_korean_currency on
\* an amount.
FMT_FUNC(metric_mode, x) ==
    IF metric_mode = "Volume"
        THEN [neg |-> FALSE, digits |-> x, decimals |-> 0, unit |-> "count"]
        ELSE format_korean_currency(x)

\* Series.agg('count' | 'sum') over the rows of one group.  Every column a
\* table aggregates is numeric and was filled by the load, so count (the
\* number of non-null cells) is the number of rows.
aggregate(rows, col, func) ==
    IF func = "count" THEN Len(rows)
    ELSE SumSeq([i \in DOMAIN rows |-> rows[i][col]])

KeyOf(row, keycols) == [j \in DOMAIN keycols |-> row[keycols[j]]]

\* A cell of a column the load leaves as read is null when the csv cell was empty.
IsNull(col, v) == col \notin (target_cols \cup {"Period", "SortKey"}) /\ v = <<>>

\* groupby drops the rows with a null key.
GroupKeys(rows, keycols) ==
    {KeyOf(rows[i], keycols) :
        i \in {n \in DOMAIN rows :
                 \A j \in DOMAIN keycols : ~IsNull(keycols[j], rows[n][keycols[j]])}}

GroupRows(rows, keycols, k) ==
    LET InGroup(r) == KeyOf(r, keycols) = k
    IN  SelectSeq(rows, InGroup)

\* frame.groupby(keycols)[col].agg(func): group key -> value
groupby_agg(rows, keycols, col, func) ==
    [k \in GroupKeys(rows, keycols) |-> aggregate(GroupRows(rows, keycols, k), col, func)]

\* The trend rows by sort key, latest first.
RECURSIVE sort_values_descending(_)
sort_values_descending(S) ==
    IF S = {} THEN <<>>
    ELSE LET hi == CHOOSE r \in S : \A q \in S : r.SortKey >= q.SortKey
         IN  <<hi>> \o sort_values_descending(S \ {hi})

\* DataFrame.sort_values('SortKey') on the trend rows
RECURSIVE sort_values(_)
sort_values(S) ==
    IF S = {} THEN <<>>
    ELSE LET lo == CHOOSE r \in S : \A q \in S : r.SortKey <= q.SortKey
         IN  <<lo>> \o sort_values(S \ {lo})

\* trend_df (line 338)
trend_rows(rows, col, func) ==
    LET g == groupby_agg(rows, <<"Period", "SortKey">>, col, func)
    IN  sort_values({[Period |-> k[1], SortKey |-> k[2], value |-> g[k]] : k \in DOMAIN g})

(***************************************************************************)
(* 5-6. Executive summary and the tabs: what one script run computes       *)
(***************************************************************************)
NoTable == [col |-> "", agg |-> "", data |-> <<>>]

\* The step of the run at which the script raises and stops: the KPI toggle on
\* a KPI_Status column that holds no string ("mask"), or the first read of a
\* column the frame lacks; "none" when the run reaches the end.
raised_at(d, kpi_target, metric_mode, filtered_empty) ==
    IF kpi_target /\ kpi_status_not_str(d) THEN "mask"                          \* line 275
    ELSE IF metric_mode # "Volume" /\ "MonthlyFee" \notin d.cols THEN "kpi"     \* line 313
    ELSE IF "SuspDays" \notin d.cols THEN "avg_days"                            \* line 318
    ELSE IF "Period" \in d.cols /\ VAL_COL(metric_mode) \notin d.cols THEN "trend"   \* line 338
    ELSE IF ~filtered_empty /\ VAL_COL(metric_mode) \notin d.cols THEN "sunburst"    \* line 348
    ELSE IF {"ContractNo", "MonthlyFee"} \ d.cols # {} THEN "hq_stats"          \* line 353
    ELSE "none"

StepOrder == <<"mask", "kpi", "avg_days", "trend", "sunburst", "hq_stats", "none">>

StepNo(step) == CHOOSE n \in DOMAIN StepOrder : StepOrder[n] = step

\* Whether the run got past `step`.
Ran(err, step) == StepNo(err) > StepNo(step)

kind_rows(rows, kind) ==
    LET IsKind(r) == r["SuspChgType"] = kind
    IN  SelectSeq(rows, IsKind)

\* v1, v2 (lines 309-314)
kpi_value(rows, metric_mode) ==
    IF metric_mode = "Volume"
        THEN [col |-> "ContractNo", agg |-> "count", data |-> Len(rows)]
        ELSE [col |-> "MonthlyFee", agg |-> "sum",
              data |-> SumSeq([i \in DOMAIN rows |-> rows[i]["MonthlyFee"]])]

NoText == [neg |-> FALSE, digits |-> 0, decimals |-> 0, unit |-> "none"]

\* 2^s mod m
RECURSIVE Pow2Mod(_, _)
Pow2Mod(s, m) == IF s = 0 THEN 1 % m ELSE (2 * Pow2Mod(s - 1, m)) % m

\* The least k with n * 2^k >= 2000, for n >= 1
RECURSIVE ShiftTo2000(_)
ShiftTo2000(n) == IF n >= 2000 THEN 0 ELSE 1 + ShiftTo2000(2 * n)

\* risk_cnt/total_cnt*100 on a tie of the first decimal: the exact ratio is
\* N/2000 with N odd (the exact percentage is N/20, halfway between the tenths
\* (N-1)/2 and (N+1)/2).  TRUE when the double the code computes prints as the
\* upper tenth.  The code rounds twice: the quotient to a double with mantissa
\* M1 (scale 2^s1, s1 = 52 + k), then the product 100 * M1 to 53 bits again
\* (dropping j = 6 or 7 bits).  Both roundings are to nearest, ties to even, and
\* are followed here on the residues that decide them: rem1 is N * 2^s1 mod
\* 2000, d1 is 2000 times the error of the first rounding, rho the error of the
\* second, and d1 + 20 * rho the sign of (double - exact percentage).
rate_tie_up(N) ==
    LET k    == ShiftTo2000(N)
        s1   == 52 + k
        R    == (N * Pow2Mod(s1, 512000)) % 512000
        rem1 == R % 2000
        q1   == (R - rem1) \div 2000
        up1  == IF rem1 = 1000 THEN q1 % 2 = 1 ELSE rem1 > 1000
        M1   == (q1 + (IF up1 THEN 1 ELSE 0)) % 256
        d1   == IF up1 THEN 2000 - rem1 ELSE 0 - rem1
        top  == N * Pow2Mod(k, 512000)
        P    == IF top > 2560 \/ (top = 2560 /\ d1 >= 0) THEN 128 ELSE 64
        A    == (100 * M1) % 256
        a    == A % P
        rho  == IF 2 * a < P THEN 0 - a
                ELSE IF 2 * a > P THEN P - a
                ELSE IF (A \div P) % 2 = 0 THEN 0 - a ELSE P - a
        D    == d1 + 20 * rho
    IN  IF D > 0 THEN TRUE
        ELSE IF D < 0 THEN FALSE
        ELSE ((N - 1) \div 2) % 2 = 1

\* f"{risk_cnt/total_cnt*100:.1f}": the tenths of a percent printed, for
\* 0 <= risk_cnt <= total_cnt, total_cnt > 0.  Off a tie the double rounds as
\* the exact ratio does.
rate_tenths(risk_cnt, total_cnt) ==
    IF (2000 * risk_cnt) % total_cnt = 0 /\ ((2000 * risk_cnt) \div total_cnt) % 2 = 1
        THEN LET N == (2000 * risk_cnt) \div total_cnt
             IN  ((N - 1) \div 2) + (IF rate_tie_up(N) THEN 1 ELSE 0)
        ELSE RoundHalfEven(risk_cnt * 1000, total_cnt)

\* The rate computed without looking at the number of rows: the division
\* raises ZeroDivisionError on an empty frame.
risk_rate_unguarded(risk_cnt, total_cnt) ==
    IF total_cnt = 0 THEN [raised |-> TRUE, text |-> NoText]
    ELSE [raised |-> FALSE,
          text |-> [neg |-> FALSE, digits |-> rate_tenths(risk_cnt, total_cnt),
                    decimals |-> 1, unit |-> "%"]]

\* f"{risk_cnt/total_cnt*100:.1f}%" if total_cnt>0 else "0%" (line 322): the
\* text of the rate card, and whether computing it raised.
risk_rate(risk_cnt, total_cnt) ==
    IF total_cnt > 0
        THEN [raised |-> FALSE,
              text |-> [neg |-> FALSE, digits |-> rate_tenths(risk_cnt, total_cnt),
                        decimals |-> 1, unit |-> "%"]]
        ELSE [raised |-> FALSE,
              text |-> [neg |-> FALSE, digits |-> 0, decimals |-> 0, unit |-> "%"]]

\* px.sunburst(df_filtered, path=['본부', '지사'], values=VAL_COL): a sector's
\* value is the sum of the values column over the sector's rows.
fig_sun(rows, metric_mode) ==
    [col |-> VAL_COL(metric_mode), agg |-> "sum",
     data |-> groupby_agg(rows, <<"HQ", "Branch">>, VAL_COL(metric_mode), "sum")]

\* hq_stats (lines 353-356): both aggregates, whatever the mode.
hq_stats_count(rows) ==
    [col |-> "ContractNo", agg |-> "count",
     data |-> groupby_agg(rows, <<"HQ">>, "ContractNo", "count")]

hq_stats_sum(rows) ==
    [col |-> "MonthlyFee", agg |-> "sum",
     data |-> groupby_agg(rows, <<"HQ">>, "MonthlyFee", "sum")]

\* A table of the form df_filtered.groupby(keys)[VAL_COL].agg(AGG_FUNC)
mode_table(rows, keycols, metric_mode) ==
    [col |-> VAL_COL(metric_mode), agg |-> AGG_FUNC(metric_mode),
     data |-> groupby_agg(rows, keycols, VAL_COL(metric_mode), AGG_FUNC(metric_mode))]

trend_df(rows, metric_mode) ==
    [col |-> VAL_COL(metric_mode), agg |-> AGG_FUNC(metric_mode),
     data |-> trend_rows(rows, VAL_COL(metric_mode), AGG_FUNC(metric_mode))]

sub_modes == {"Channel", "LiType", "DispatchVideo", "SuspChgType"}

\* The value of the detail widget when it is first drawn (lines 371-374): the
\* default '정지,설변구분' of st.pills, or, on a streamlit release without
\* st.pills, the first option '실적채널' of the st.radio of the except branch,
\* which is given no index.  (The except branches of the other widgets start
\* as the pills do: every option selected, mode '건수 (Volume)'.)
sub_mode_defaults == {"SuspChgType", "Channel"}

\* "if not sub_mode: sub_mode = '정지,설변구분'" (line 375)
sub_mode_of(raw) == IF raw = "None" THEN "SuspChgType" ELSE raw

\* What a widget that held values that are no longer options held when the
\* run began: those values (dropped) and the rest (kept).
revalidated(held, options) ==
    IF held \subseteq options THEN [dropped |-> {}, kept |-> {}]
    ELSE [dropped |-> held \ options, kept |-> held \cap options]

\* Everything the run computes after the selections are resolved.  A run that
\* raises at line 275 computes no mask (kept here as the empty one) and nothing
\* after it.  A table is
\* kept as group -> value: the display order of hq_stats, of the top-20
\* managers and of the band charts is not part of it; trend_df is kept in its
\* sort order.
render(d, sel_hq, opts_br, sel_br, opts_mgr, sel_mgr, s) ==
    LET m    == IF s.kpi_target /\ kpi_status_not_str(d) THEN {}
                ELSE mask(d, sel_hq, sel_br, sel_mgr, s.kpi_target, s.arrears_only)
        rows == frame_rows(d, m)
        mode == s.metric_mode
        err  == raised_at(d, s.kpi_target, mode, m = {})
        susp == kind_rows(rows, "Susp")
        chg  == kind_rows(rows, "Chg")
        sub  == sub_mode_of(s.sub_mode)
        Tab(step, t) == IF Ran(err, step) THEN t ELSE NoTable
    IN  [revalidated       |-> [br |-> revalidated(s.br.val, opts_br),
                                 mgr |-> revalidated(s.mgr.val, opts_mgr)],
         selected_hq       |-> sel_hq,
         valid_branches    |-> opts_br,
         selected_branch   |-> sel_br,
         valid_managers    |-> opts_mgr,
         selected_managers |-> sel_mgr,
         mask              |-> m,
         metric_mode       |-> mode,
         err               |-> err,
         v1        |-> IF Ran(err, "kpi") THEN kpi_value(susp, mode) ELSE NoTable,
         v2        |-> IF Ran(err, "kpi") THEN kpi_value(chg, mode) ELSE NoTable,
         k1        |-> IF Ran(err, "kpi") THEN FMT_FUNC(mode, kpi_value(susp, mode).data)
                                          ELSE NoText,
         k2        |-> IF Ran(err, "kpi") THEN FMT_FUNC(mode, kpi_value(chg, mode).data)
                                          ELSE NoText,
         avg_days  |-> IF Ran(err, "avg_days")
                           THEN <<SumSeq([i \in DOMAIN rows |-> rows[i]["SuspDays"]]), Len(rows)>>
                           ELSE <<0, 0>>,
         risk      |-> IF Ran(err, "avg_days") THEN <<Len(susp), Len(rows)>> ELSE <<0, 0>>,
         k4        |-> IF Ran(err, "avg_days") THEN risk_rate(Len(susp), Len(rows))
                                                ELSE [raised |-> FALSE, text |-> NoText],
         trend_df  |-> IF Ran(err, "trend") /\ "Period" \in d.cols
                           THEN trend_df(rows, mode) ELSE NoTable,
         fig_sun   |-> IF Ran(err, "sunburst") /\ m # {}
                           THEN fig_sun(rows, mode) ELSE NoTable,
         hq_count  |-> Tab("hq_stats", hq_stats_count(rows)),
         hq_sum    |-> Tab("hq_stats", hq_stats_sum(rows)),
         mode_data |-> Tab("hq_stats", mode_table(rows, <<sub>>, mode)),
         hq_brk    |-> Tab("hq_stats", mode_table(rows, <<"HQ", "SuspChgType">>, mode)),
         br_brk    |-> Tab("hq_stats", mode_table(rows, <<"Branch", "SuspChgType">>, mode)),
         mgr_brk   |-> Tab("hq_stats", mode_table(rows, <<"Manager", "SuspChgType">>, mode)),
         s_data    |-> IF Ran(err, "hq_stats") /\ "SuspDaysBand" \in d.cols
                           THEN mode_table(rows, <<"SuspDaysBand">>, mode) ELSE NoTable,
         p_data    |-> IF Ran(err, "hq_stats") /\ "FeeBand" \in d.cols
                           THEN mode_table(rows, <<"FeeBand">>, mode) ELSE NoTable]

Widget(options, value) == [fresh |-> FALSE, opts |-> options, val |-> value]

\* The session a run that ended at `err` leaves.  A run that raises does not
\* draw the widgets after the line that raised: the mode widget (line 288)
\* after "mask", the detail widget (line 372) after every exception.  Depending
\* on the streamlit release, the state of a widget that a run ended by an
\* exception did not draw is kept, or discarded (the widget is then at its
\* default the next time it is drawn).
after_run(s, err) ==
    IF err = "none" THEN {s}
    ELSE IF err = "mask"
        THEN {s} \cup {[s EXCEPT !.metric_mode = "Volume", !.sub_mode = x] :
                          x \in sub_mode_defaults}
    ELSE {s} \cup {[s EXCEPT !.sub_mode = x] : x \in sub_mode_defaults}

\* The run from the manager widget on (lines 234-end).
run_from_mgr(d, s, raw_hq, sel_hq, raw_br, opts_br, sel_br) ==
    LET opts_mgr == valid_managers(d, sel_hq, sel_br)
    IN  UNION {LET v == render(d, sel_hq, opts_br, sel_br, opts_mgr,
                               fallback_all(raw_mgr, opts_mgr), s)
               IN  {[session |-> [t EXCEPT !.hq = Widget(all_hqs(d), raw_hq),
                                           !.br = Widget(opts_br, raw_br),
                                           !.mgr = Widget(opts_mgr, raw_mgr)],
                     view |-> v] : t \in after_run(s, v.err)} :
                  raw_mgr \in pills_multi(opts_mgr, s.mgr)}

\* The run from the branch widget on (lines 216-end).
run_from_br(d, s, raw_hq, sel_hq) ==
    LET opts_br == valid_branches(d, sel_hq)
    IN  UNION {run_from_mgr(d, s, raw_hq, sel_hq, raw_br, opts_br,
                            fallback_all(raw_br, opts_br)) :
                  raw_br \in pills_multi(opts_br, s.br)}

\* One run of the script on frame d with the session s the interaction left:
\* the set of (session, view) pairs the run can end with.
script_run(d, s) ==
    UNION {run_from_br(d, s, raw_hq, fallback_all(raw_hq, all_hqs(d))) :
              raw_hq \in pills_multi(all_hqs(d), s.hq)}

(***************************************************************************)
(* The csv files explored.  A file is its set of column names and its rows *)
(* (a row gives one raw cell per column).  A frame with no row stops the   *)
(* script at line 186, so every file has a row.                            *)
(***************************************************************************)
MaxRows == 3
MaxMissing == 1

D(y, m, d) == <<[y |-> y, m |-> m, d |-> d]>>

BaseCols ==
    {"HQ", "Branch", "Manager", "EventStart", "MonthlyFee", "ContractNo",
     "SuspDays", "SuspChgType", "KPIDeduct", "Arrears", "Channel", "LiType",
     "DispatchVideo", "ServiceSub", "BadType"}

ExtraCols == {"QueryType", "SuspDaysBand", "FeeBand"}

BaseRow ==
    [c \in BaseCols \cup ExtraCols |->
        CASE c = "HQ" -> <<"A">>
          [] c = "Branch" -> <<"X">>
          [] c = "Manager" -> <<"m1">>
          [] c = "EventStart" -> D(2025, 1, 15)
          [] c = "MonthlyFee" -> <<3>>
          [] c = "ContractNo" -> <<5>>
          [] c = "SuspDays" -> <<10>>
          [] c = "SuspChgType" -> <<"Susp">>
          [] c = "QueryType" -> <<"Chg">>
          [] c = "KPIDeduct" -> << <<"TARGET">> >>
          [] c = "Arrears" -> <<"Y">>
          [] c = "SuspDaysBand" -> <<"d10">>
          [] c = "FeeBand" -> <<"f3">>
          [] OTHER -> <<"k">>]

\* The files of 1 to n of the rows R (a sequence), in R's order, with the
\* columns cols.
Files(R, n, cols) ==
    {[cols |-> cols,
      rows |-> LET ix == IndicesFrom(1, Len(R), K)
               IN  [i \in DOMAIN ix |-> [c \in cols |-> R[ix[i]][c]]]] :
        K \in {J \in SUBSET (1..Len(R)) : Cardinality(J) \in 1..n}}

\* Rows that differ in the hierarchy and in the fields the toggles read.
\* One manager cell, one KPI cell and one arrears cell are empty.
FilterRows ==
    <<[BaseRow EXCEPT !["HQ"] = <<"A">>, !["Branch"] = <<"X">>, !["Manager"] = <<"m1">>,
                      !["KPIDeduct"] = << <<"NON", "TARGET">> >>, !["Arrears"] = <<"Y">>],
      [BaseRow EXCEPT !["HQ"] = <<"A">>, !["Branch"] = <<"Y">>, !["Manager"] = <<"m2">>,
                      !["KPIDeduct"] = << <<"TARGET">> >>, !["Arrears"] = <<>>],
      [BaseRow EXCEPT !["HQ"] = <<"B">>, !["Branch"] = <<"Z">>, !["Manager"] = <<>>,
                      !["KPIDeduct"] = <<>>, !["Arrears"] = <<"-">>]>>

\* Rows that differ in what the KPIs and the tables aggregate.
AggRows ==
    <<[BaseRow EXCEPT !["SuspChgType"] = <<"Susp">>, !["MonthlyFee"] = <<3>>, !["ContractNo"] = <<5>>],
      [BaseRow EXCEPT !["SuspChgType"] = <<"Susp">>, !["MonthlyFee"] = <<>>, !["ContractNo"] = <<7>>,
                      !["Channel"] = <<"web">>],
      [BaseRow EXCEPT !["SuspChgType"] = <<"Chg">>, !["MonthlyFee"] = <<4>>, !["ContractNo"] = <<>>,
                      !["Manager"] = <<"m2">>],
      [BaseRow EXCEPT !["SuspChgType"] = <<>>, !["MonthlyFee"] = <<1>>, !["ContractNo"] = <<7>>,
                      !["EventStart"] = <<>>]>>

\* Rows that differ in the event date: no calendar date, two dates before
\* 2025, two dates of one month of 2025 and a date of the next month.
PeriodRows ==
    <<[BaseRow EXCEPT !["EventStart"] = D(2025, 2, 30), !["ContractNo"] = <<7>>],
      [BaseRow EXCEPT !["EventStart"] = D(2024, 3, 1)],
      [BaseRow EXCEPT !["EventStart"] = D(2024, 11, 1), !["MonthlyFee"] = <<4>>],
      [BaseRow EXCEPT !["EventStart"] = D(2025, 1, 15)],
      [BaseRow EXCEPT !["EventStart"] = D(2025, 1, 20), !["MonthlyFee"] = <<4>>],
      [BaseRow EXCEPT !["EventStart"] = D(2025, 2, 1)]>>

\* Rows of one branch that differ in the amount (at least 1e8, between 1e6 and
\* 1e8, below 1e6, on a tie of the first decimal, empty), in the kind and in
\* the arrears field, so that the arrears toggle can leave no row.
KpiRows ==
    <<[BaseRow EXCEPT !["SuspChgType"] = <<"Susp">>, !["MonthlyFee"] = <<150000000>>],
      [BaseRow EXCEPT !["SuspChgType"] = <<"Susp">>, !["MonthlyFee"] = <<2500000>>,
                      !["Arrears"] = <<"-">>],
      [BaseRow EXCEPT !["SuspChgType"] = <<"Susp">>, !["MonthlyFee"] = <<850500>>],
      [BaseRow EXCEPT !["SuspChgType"] = <<"Chg">>, !["MonthlyFee"] = <<1150000>>,
                      !["Arrears"] = <<"-">>],
      [BaseRow EXCEPT !["SuspChgType"] = <<"Chg">>, !["MonthlyFee"] = <<>>]>>

\* The columns the script reads by name.
ReadCols ==
    {"HQ", "Branch", "Manager", "EventStart", "MonthlyFee", "ContractNo",
     "SuspDays", "SuspChgType", "KPIDeduct", "Arrears"}

\* The column sets: the base columns less at most MaxMissing of the columns
\* read, and the base columns with the optional ones.
ColumnSets ==
    {BaseCols \ missing : missing \in {M \in SUBSET ReadCols : Cardinality(M) <= MaxMissing}}
    \cup {BaseCols \cup {"QueryType"}, (BaseCols \ {"SuspChgType"}) \cup {"QueryType"},
          BaseCols \cup {"SuspDaysBand", "FeeBand"}}

ColumnRows ==
    <<BaseRow,
      [BaseRow EXCEPT !["SuspChgType"] = <<"Chg">>, !["EventStart"] = D(2024, 3, 1),
                      !["SuspDaysBand"] = <<>>, !["FeeBand"] = <<"f9">>]>>

FilterFiles == Files(FilterRows, MaxRows, BaseCols)
AggFiles == Files(AggRows, MaxRows, BaseCols)
PeriodFiles == Files(PeriodRows, MaxRows, BaseCols)
KpiFiles == Files(KpiRows, MaxRows, BaseCols)
ColumnFiles ==
    {[cols |-> cols, rows |-> [i \in DOMAIN ColumnRows |-> [c \in cols |-> ColumnRows[i][c]]]] :
        cols \in ColumnSets}

(***************************************************************************)
(* The state machine: df is the loaded frame (st.cache_data: loaded once), *)
(* session the widgets' state, view what the last script run computed.     *)
(***************************************************************************)
\* The session before the first run, on a release whose detail widget starts
\* at sub_default.
InitSession(sub_default) ==
    [hq |-> FreshWidget, br |-> FreshWidget, mgr |-> FreshWidget,
     kpi_target |-> FALSE, arrears_only |-> FALSE,
     metric_mode |-> "Volume", sub_mode |-> sub_default]

\* The first run of the script on a file.
FirstRun(files) ==
    \E csv \in files :
        /\ df = load_enterprise_data(csv)
        /\ \E sub_default \in sub_mode_defaults :
              \E r \in script_run(load_enterprise_data(csv), InitSession(sub_default)) :
                  /\ session = r.session
                  /\ view = r.view

\* Streamlit reruns the script after an interaction that left session s.
Rerun(s) ==
    \E r \in script_run(df, s) :
        /\ session' = r.session
        /\ view' = r.view
        /\ df' = df

Toggle(S, x) == IF x \in S THEN S \ {x} ELSE S \cup {x}

\* A click on a pill of a single-selection widget: selects it, or clears the
\* selection when it was the selected one (the st.radio of the except
\* branches only selects).
pills_single(cur, x) == IF cur = x THEN "None" ELSE x

SelectHQ ==
    \E h \in session.hq.opts :
        Rerun([session EXCEPT !.hq.val = Toggle(@, h)])

SelectBranch ==
    \E b \in session.br.opts :
        Rerun([session EXCEPT !.br.val = Toggle(@, b)])

SelectManager ==
    \E m \in session.mgr.opts :
        Rerun([session EXCEPT !.mgr.val = Toggle(@, m)])

ToggleKpi == Rerun([session EXCEPT !.kpi_target = ~@])

ToggleArrears == Rerun([session EXCEPT !.arrears_only = ~@])

\* A change of mode that also clears the branch widget.
SelectMode_clears_branch ==
    /\ view.err # "mask"
    /\ \E x \in {"Volume", "Revenue"} :
          Rerun([session EXCEPT !.metric_mode = pills_single(@, x), !.br.val = {}])

\* The mode widget is drawn only by a run that got past the filter.
SelectMode ==
    /\ view.err # "mask"
    /\ \E x \in {"Volume", "Revenue"} :
          Rerun([session EXCEPT !.metric_mode = pills_single(@, x)])

\* The detail widget is drawn only by a run that reached the second tab.
SelectSubMode ==
    /\ view.err = "none"
    /\ \E c \in sub_modes :
          Rerun([session EXCEPT !.sub_mode = pills_single(@, c)])

Next ==
    \/ SelectHQ
    \/ SelectBranch
    \/ SelectManager
    \/ ToggleKpi
    \/ ToggleArrears
    \/ SelectMode
    \/ SelectSubMode

Init == FirstRun(FilterFiles)
InitAgg == FirstRun(AggFiles)
InitPeriod == FirstRun(PeriodFiles)
InitColumns == FirstRun(ColumnFiles)
InitKpi == FirstRun(KpiFiles)

\* The dashboard on files that differ in the hierarchy and the toggle fields,
\* in the aggregated fields, in the event dates, in the columns present, and in
\* what the KPI cards show.
Spec == Init /\ [][Next]_vars
SpecAgg == InitAgg /\ [][Next]_vars
SpecPeriod == InitPeriod /\ [][Next]_vars
SpecColumns == InitColumns /\ [][Next]_vars
SpecKpi == InitKpi /\ [][Next]_vars

(***************************************************************************)
(* Properties of the cascading filter (checked under Spec)                 *)
(***************************************************************************)
Branches(d) == {d.rows[i]["Branch"] : i \in RowIdx(d)}

\* C1: at each of the three levels the selection used for filtering is
\* non-empty whenever the level has a valid candidate, and a widget that holds
\* nothing after the run stands for every valid candidate of its level.
C1_SelectAllFallback ==
    /\ all_hqs(df) # {} => view.selected_hq # {}
    /\ view.valid_branches # {} => view.selected_branch # {}
    /\ view.valid_managers # {} => view.selected_managers # {}
    /\ session.hq.val = {} => view.selected_hq = all_hqs(df)
    /\ session.br.val = {} => view.selected_branch = view.valid_branches
    /\ session.mgr.val = {} => view.selected_managers = view.valid_managers
    /\ view.valid_branches = {b \in Branches(df) :
                                \E i \in RowIdx(df) : /\ df.rows[i]["Branch"] = b
                                                      /\ df.rows[i]["HQ"] \in view.selected_hq}

\* The user has cleared all three widgets of a file with several branches.
C1_Witness ==
    /\ session.hq.val = {} /\ session.br.val = {} /\ session.mgr.val = {}
    /\ Cardinality(view.selected_hq) = 2
    /\ Cardinality(view.selected_branch) = 3
    /\ Cardinality(view.selected_managers) >= 2

\* C2: the resolved branch selection is a subset of the branches valid under
\* the resolved headquarters, the resolved manager selection a subset of the
\* managers valid under the resolved headquarters and branches; a value a
\* widget held that is no longer valid is not in the resolved selection, and a
\* held selection of invalid values only resolves to the full valid set.
C2_NoStaleSelection ==
    /\ view.selected_branch \subseteq
           {df.rows[i]["Branch"] : i \in {j \in RowIdx(df) : df.rows[j]["HQ"] \in view.selected_hq}}
    /\ view.selected_managers \subseteq
           {df.rows[i]["Manager"] :
               i \in {j \in RowIdx(df) : /\ df.rows[j]["HQ"] \in view.selected_hq
                                         /\ df.rows[j]["Branch"] \in view.selected_branch}}
    /\ view.revalidated.br.dropped \cap view.selected_branch = {}
    /\ view.revalidated.mgr.dropped \cap view.selected_managers = {}
    /\ (view.revalidated.br.dropped # {} /\ view.revalidated.br.kept = {})
           => view.selected_branch = view.valid_branches
    /\ (view.revalidated.mgr.dropped # {} /\ view.revalidated.mgr.kept = {})
           => view.selected_managers = view.valid_managers

\* Scenario C: the branch widget held {Z} when headquarters B was deselected;
\* the branches valid under A are X and Y.
C2_Witness ==
    /\ all_hqs(df) = {"A", "B"}
    /\ view.selected_hq = {"A"}
    /\ view.revalidated.br = [dropped |-> {"Z"}, kept |-> {}]
    /\ view.valid_branches = {"X", "Y"}
    /\ view.selected_branch = {"X", "Y"}

\* C3: every run computes the filtered frame, and a row is kept iff its
\* headquarters, branch and manager are in the resolved selections, and, when
\* the KPI toggle is on, its KPI status contains the target marker, and, when
\* the arrears toggle is on, its arrears field is none of the not-applicable
\* sentinels.
C3_FilterIsConjunction ==
    /\ view.err # "mask"
    /\ \A i \in RowIdx(df) :
        i \in view.mask <=>
            /\ df.rows[i]["HQ"] \in view.selected_hq
            /\ df.rows[i]["Branch"] \in view.selected_branch
            /\ df.rows[i]["Manager"] \in view.selected_managers
            /\ \/ ~session.kpi_target
               \/ /\ Len(df.rows[i]["KPI_Status"]) = 1
                  /\ "TARGET" \in Range(df.rows[i]["KPI_Status"][1])
            /\ \/ ~session.arrears_only
               \/ df.rows[i]["Arrears"] \notin {"-", "Unclassified", "Unassigned"}

\* C6: a step that changes the analysis mode leaves the resolved selections
\* of the three levels and the set of kept rows as they were.  (A run that
\* raises before it draws the mode widget may discard the widget's state: that
\* is no change of mode by the user, and such a run computes no set of rows.)
C6_ModeKeepsFilter ==
    [][(session'.metric_mode # session.metric_mode /\ view'.err # "mask") =>
          /\ view'.selected_hq = view.selected_hq
          /\ view'.selected_branch = view.selected_branch
          /\ view'.selected_managers = view.selected_managers
          /\ view'.mask = view.mask
          /\ Cardinality(view'.mask) = Cardinality(view.mask)]_vars

\* Revenue mode was chosen while the filter keeps two of three rows.
C6_Witness ==
    /\ view.metric_mode = "Revenue"
    /\ session.br.val # {}
    /\ Cardinality(view.mask) = 2
    /\ Len(df.rows) = 3

(***************************************************************************)
(* Properties of the aggregation mode (checked under SpecAgg)              *)
(***************************************************************************)
Computed(t) == t.col # ""

\* The column and the aggregator of every KPI and chart table of the run.
TableUses ==
    <<view.v1, view.v2, view.trend_df, view.fig_sun, view.hq_count, view.hq_sum,
      view.mode_data, view.hq_brk, view.br_brk, view.mgr_brk, view.s_data, view.p_data>>

\* C4: every KPI and every grouped aggregate of a run uses the column and the
\* aggregator of the run's mode (Volume: a count; Revenue: the sum of the
\* monetary amount).
C4_OneModePerRun ==
    \A n \in DOMAIN TableUses :
        Computed(TableUses[n]) =>
            /\ TableUses[n].agg = (IF view.metric_mode = "Volume" THEN "count" ELSE "sum")
            /\ view.metric_mode # "Volume" => TableUses[n].col = "MonthlyFee"

RECURSIVE FeeSum(_)
FeeSum(S) ==
    IF S = {} THEN 0
    ELSE LET i == CHOOSE j \in S : TRUE
         IN  df.rows[i]["MonthlyFee"] + FeeSum(S \ {i})

\* What the mode asks of a group of kept rows.
Expected(S) == IF view.metric_mode = "Volume" THEN Cardinality(S) ELSE FeeSum(S)

GroupIdx(keycols, k) ==
    {i \in view.mask : \A j \in DOMAIN keycols : df.rows[i][keycols[j]] = k[j]}

GroupTableOK(t, keycols) ==
    Computed(t) =>
        /\ \A k \in DOMAIN t.data : t.data[k] = Expected(GroupIdx(keycols, k))
        /\ \A i \in view.mask :
              (\A j \in DOMAIN keycols : ~IsNull(keycols[j], df.rows[i][keycols[j]]))
                  => KeyOf(df.rows[i], keycols) \in DOMAIN t.data

\* C5: the value of each group of every grouping of the run (the trend, the
\* sunburst, the headquarters statistics, the detail and breakdown tables and
\* the band tables), and of the suspension and change KPIs, is the number of
\* kept rows of the group in Volume mode and the sum of their monetary amount
\* in Revenue mode, and every kept row with a key is in a group.
C5_CountOrSum ==
    /\ Computed(view.v1) =>
          view.v1.data = Expected({i \in view.mask : df.rows[i]["SuspChgType"] = "Susp"})
    /\ Computed(view.v2) =>
          view.v2.data = Expected({i \in view.mask : df.rows[i]["SuspChgType"] = "Chg"})
    /\ GroupTableOK(view.fig_sun, <<"HQ", "Branch">>)
    /\ GroupTableOK(view.hq_count, <<"HQ">>)
    /\ GroupTableOK(view.hq_sum, <<"HQ">>)
    /\ GroupTableOK(view.mode_data, <<sub_mode_of(session.sub_mode)>>)
    /\ GroupTableOK(view.hq_brk, <<"HQ", "SuspChgType">>)
    /\ GroupTableOK(view.br_brk, <<"Branch", "SuspChgType">>)
    /\ GroupTableOK(view.mgr_brk, <<"Manager", "SuspChgType">>)
    /\ GroupTableOK(view.s_data, <<"SuspDaysBand">>)
    /\ GroupTableOK(view.p_data, <<"FeeBand">>)
    /\ Computed(view.trend_df) =>
          \A n \in DOMAIN view.trend_df.data :
              view.trend_df.data[n].value =
                  Expected({i \in view.mask :
                              /\ df.rows[i]["Period"] = view.trend_df.data[n].Period
                              /\ df.rows[i]["SortKey"] = view.trend_df.data[n].SortKey})

(***************************************************************************)
(* Properties of the period buckets (checked under SpecPeriod)             *)
(***************************************************************************)
Dated(i) == df.rows[i]["EventStart"] # NaT
DateOf(i) == df.rows[i]["EventStart"][1]
OnOrAfterCutoff(i) == Dated(i) /\ YearOf(DateOf(i)) >= 2025
BeforeCutoff(i) == Dated(i) /\ YearOf(DateOf(i)) < 2025
YearMonth(d) == YearOf(d) * 100 + MonthOf(d)

\* C7: rows dated on or after 2025 in the same (year, month) have the same
\* label and the same sort key, the first day of the month, and the trend has
\* one row per (year, month).
C7_OneBucketPerMonth ==
    /\ \A i, j \in RowIdx(df) :
          (OnOrAfterCutoff(i) /\ OnOrAfterCutoff(j) /\ YearMonth(DateOf(i)) = YearMonth(DateOf(j)))
              => /\ df.rows[i]["Period"] = df.rows[j]["Period"]
                 /\ df.rows[i]["SortKey"] = df.rows[j]["SortKey"]
                 /\ df.rows[i]["SortKey"] = YearMonth(DateOf(i)) * 100 + 1
    /\ Computed(view.trend_df) =>
          \A a, b \in DOMAIN view.trend_df.data :
              (/\ view.trend_df.data[a].Period.kind = "month"
               /\ view.trend_df.data[a].Period = view.trend_df.data[b].Period) => a = b

\* C8: the rows dated before 2025 share one label and one sort key, whatever
\* their year and month; the trend has exactly one row for the kept ones, and
\* in Volume mode its value is their number.
C8_PreCutoffOneBucket ==
    /\ \A i, j \in RowIdx(df) :
          (BeforeCutoff(i) /\ BeforeCutoff(j))
              => /\ df.rows[i]["Period"] = df.rows[j]["Period"]
                 /\ df.rows[i]["SortKey"] = df.rows[j]["SortKey"]
    /\ \A i, j \in RowIdx(df) :
          (BeforeCutoff(i) /\ ~BeforeCutoff(j)) => df.rows[i]["Period"] # df.rows[j]["Period"]
    /\ Computed(view.trend_df) =>
          LET pre == {i \in view.mask : BeforeCutoff(i)}
              hit == {n \in DOMAIN view.trend_df.data :
                         \E i \in pre : view.trend_df.data[n].Period = df.rows[i]["Period"]}
          IN  /\ Cardinality(hit) = (IF pre = {} THEN 0 ELSE 1)
              /\ view.metric_mode = "Volume" =>
                    \A n \in hit : view.trend_df.data[n].value = Cardinality(pre)

\* Scenario A: rows dated 2024-03-01 and 2024-11-01 are kept and the trend, in
\* Volume mode, has one row before the cutoff, of value 2.
C8_Witness ==
    /\ view.metric_mode = "Volume"
    /\ \E i, j \in view.mask :
          /\ BeforeCutoff(i) /\ DateOf(i) = 20240301
          /\ BeforeCutoff(j) /\ DateOf(j) = 20241101
    /\ \E n \in DOMAIN view.trend_df.data :
          /\ view.trend_df.data[n].Period.kind = "pre"
          /\ view.trend_df.data[n].value = 2

BucketRank(row) ==
    CASE row.Period.kind = "unknown" -> 0
      [] row.Period.kind = "pre" -> 1
      [] OTHER -> 2

\* C9: in the trend the row of the undated records, if any, is first, the row
\* of the records before 2025 next, directly before the monthly rows, and no
\* row of a later month precedes a row of an earlier month.
C9_TrendOrder ==
    Computed(view.trend_df) =>
        \A a, b \in DOMAIN view.trend_df.data :
            a < b =>
                /\ BucketRank(view.trend_df.data[a]) <= BucketRank(view.trend_df.data[b])
                /\ BucketRank(view.trend_df.data[a]) < 2 =>
                       BucketRank(view.trend_df.data[a]) < BucketRank(view.trend_df.data[b])
                /\ BucketRank(view.trend_df.data[a]) = 2 =>
                       YearMonth(view.trend_df.data[a].SortKey)
                           <= YearMonth(view.trend_df.data[b].SortKey)

\* A trend of an undated row, a row before 2025 and a monthly row.
C9_Witness ==
    /\ Computed(view.trend_df)
    /\ Len(view.trend_df.data) = 3
    /\ view.trend_df.data[1].Period.kind = "unknown"
    /\ view.trend_df.data[2].Period.kind = "pre"
    /\ view.trend_df.data[3].Period.kind = "month"

(***************************************************************************)
(* Missing columns (checked under SpecColumns)                             *)
(***************************************************************************)
\* C10: whatever columns the file lacks, the loaded frame has every column
\* the script reads and the run ends without raising.
C10_MissingColumnNeverRaises ==
    /\ (ReadCols \ {"KPIDeduct"}) \subseteq df.cols
    /\ view.err = "none"

(***************************************************************************)
(* The KPI cards (checked under SpecKpi)                                   *)
(***************************************************************************)
\* The two amount cards of the run: the value and the text shown for it.
AmountCards ==
    <<[value |-> view.v1.data, text |-> view.k1],
      [value |-> view.v2.data, text |-> view.k2]>>

\* The text carries the suffix `unit` and prints value / divisor to `decimals`
\* decimals, where step = divisor / 10^decimals is the weight of its last digit.
Shows(text, value, unit, decimals, step) ==
    /\ text.unit = unit
    /\ text.decimals = decimals
    /\ 2 * Abs(text.digits * step - Abs(value)) <= step

\* C11: in Revenue mode an amount of at least 1e8 is shown divided by 1e8 with
\* one decimal, an amount of at least 1e6 and below 1e8 divided by 1e6 with one
\* decimal, and a smaller amount divided by 1e3 with no decimals.
C11_UnitByMagnitude ==
    (view.metric_mode = "Revenue" /\ Ran(view.err, "kpi")) =>
        \A i \in DOMAIN AmountCards :
            LET v == AmountCards[i].value
                t == AmountCards[i].text
            IN  IF Abs(v) >= 100000000 THEN Shows(t, v, "hundred_million", 1, 10000000)
                ELSE IF Abs(v) >= 1000000 THEN Shows(t, v, "million", 1, 100000)
                ELSE IF v = 0 THEN t.digits = 0 /\ t.decimals = 0
                ELSE Shows(t, v, "thousand", 0, 1000)

\* The suspension rows among the rows the filter keeps.
SuspKept == {i \in view.mask : df.rows[i]["SuspChgType"] = "Susp"}

\* C12: a run that reaches the rate card never raises there; on an empty
\* filtered frame the card shows the rate 0, and otherwise it shows, to one
\* decimal of a percent, the number of suspension rows over the number of rows
\* kept.
C12_RateDefinedOnEmpty ==
    Ran(view.err, "avg_days") =>
        /\ ~view.k4.raised
        /\ view.k4.text.unit = "%"
        /\ view.mask = {} => view.k4.text.digits = 0
        /\ view.mask # {} =>
              /\ view.k4.text.decimals = 1
              /\ 2 * Abs(view.k4.text.digits * Cardinality(view.mask)
                           - 1000 * Cardinality(SuspKept))
                    <= Cardinality(view.mask)

\* The arrears toggle has left no row of a file that has rows, and the rate
\* card shows 0.
C12_Witness ==
    /\ session.arrears_only
    /\ df.rows # <<>>
    /\ view.mask = {}
    /\ Ran(view.err, "avg_days")
    /\ ~view.k4.raised
    /\ view.k4.text.digits = 0

====
